---------------------------- MODULE Spec2Model ----------------------------
(***************************************************************************)
(* Model of pilco/controllers.py: the squashing function squash_sin, the   *)
(* LinearController, the RbfController (with its FakeGPR sub-models) and    *)
(* the CombinedController.                                                 *)
(*                                                                         *)
(* Numbers: every tensor entry is an exact rational <<num, den>> with      *)
(* den > 0 in lowest terms, so products, sums and quotients are computed   *)
(* as the code computes them but without floating-point rounding.          *)
(* tf.sin, tf.cos, tf.exp and np.exp are fixed-point tables: the argument  *)
(* is rounded to the nearest half, the value is given in thousandths.      *)
(* A tensor of rank 2 is a sequence of rows; a tensor of rank 1 is a       *)
(* sequence of entries.                                                    *)
(***************************************************************************)
EXTENDS Integers, Sequences, FiniteSets, TLC

(***************************************************************************)
(* Bounds of the model.                                                    *)
(***************************************************************************)
state_dim == 2
control_dim == 2
num_basis_functions == 2
NumSeeds == 2

(***************************************************************************)
(* Exact rational arithmetic (the float64 scalars of numpy / tensorflow).  *)
(***************************************************************************)
Abs(x) == IF x < 0 THEN -x ELSE x

RECURSIVE GCD(_, _)
GCD(x, y) == IF y = 0 THEN x ELSE GCD(y, x % y)

Norm(n, d) ==
  LET g == GCD(Abs(n), Abs(d))
      s == IF d < 0 THEN -1 ELSE 1
  IN  <<(s * n) \div g, (s * d) \div g>>

R(n) == <<n, 1>>
Q(n, d) == Norm(n, d)
RAdd(p, q) ==
  LET g == GCD(p[2], q[2])
  IN  Norm(p[1] * (q[2] \div g) + q[1] * (p[2] \div g), (p[2] \div g) * q[2])
RNeg(p) == <<-p[1], p[2]>>
RSub(p, q) == RAdd(p, RNeg(q))
RMul(p, q) ==
  LET g == GCD(Abs(p[1]), q[2])
      h == GCD(Abs(q[1]), p[2])
  IN  Norm((p[1] \div g) * (q[1] \div h), (p[2] \div h) * (q[2] \div g))
RDiv(p, q) == RMul(p, Norm(q[2], q[1]))
RLt(p, q) == p[1] * q[2] < q[1] * p[2]
RLe(p, q) == p[1] * q[2] <= q[1] * p[2]
RAbs(p) == <<Abs(p[1]), p[2]>>
\* nearest half-integer index of p: floor(2p + 1/2)
HalfIndex(p) == (4 * p[1] + p[2]) \div (2 * p[2])

(***************************************************************************)
(* tf.sin, tf.cos for arguments in [-8, 8]; tf.exp / np.exp for arguments  *)
(* up to 4 (0 below -8).  Values in thousandths, at the nearest half.      *)
(***************************************************************************)
SinTable ==
  <<
    -989, -938, -657, -215, 279, 706, 959, 978,
    757, 351, -141, -598, -909, -997, -841, -479,
    0, 479, 841, 997, 909, 598, 141, -351,
    -757, -978, -959, -706, -279, 215, 657, 938,
    989
  >>

CosTable ==
  <<
    -146, 347, 754, 977, 960, 709, 284, -211,
    -654, -936, -990, -801, -416, 71, 540, 878,
    1000, 878, 540, 71, -416, -801, -990, -936,
    -654, -211, 284, 709, 960, 977, 754, 347,
    -146
  >>

ExpTable ==
  <<
    0, 1, 1, 2, 2, 4, 7, 11,
    18, 30, 50, 82, 135, 223, 368, 607,
    1000, 1649, 2718, 4482, 7389, 12182, 20086, 33115,
    54598
  >>

Sin(p) == Q(SinTable[HalfIndex(p) + 17], 1000)
Cos(p) == Q(CosTable[HalfIndex(p) + 17], 1000)
Exp(p) == IF HalfIndex(p) < -16 THEN R(0) ELSE Q(ExpTable[HalfIndex(p) + 17], 1000)

(***************************************************************************)
(* Tensor helpers.                                                         *)
(***************************************************************************)
Rows(A) == Len(A)
Cols(A) == Len(A[1])

\* the array with entries f[1], ..., f[n], each evaluated once
Array(f, n) == SubSeq(f, 1, n)

RECURSIVE RSum(_, _)
\* sum of f[1..n]
RSum(f, n) == IF n = 0 THEN R(0) ELSE RAdd(RSum(f, n - 1), f[n])

\* A @ B
MatMul(A, B) ==
  Array([i \in 1..Rows(A) |-> Array([j \in 1..Cols(B) |->
     RSum(Array([l \in 1..Cols(A) |-> RMul(A[i][l], B[l][j])], Cols(A)), Cols(A))],
     Cols(B))], Rows(A))

\* tf.transpose(A), A.T
Transpose(A) ==
  Array([i \in 1..Cols(A) |-> Array([j \in 1..Rows(A) |-> A[j][i]], Rows(A))], Cols(A))

\* tf.linalg.diag(v), np.diag(v) for a rank-1 v
Diag(v) ==
  Array([i \in 1..Len(v) |->
     Array([j \in 1..Len(v) |-> IF i = j THEN v[i] ELSE R(0)], Len(v))], Len(v))

\* tf.linalg.diag_part(A)
DiagPart(A) == Array([i \in 1..Rows(A) |-> A[i][i]], Rows(A))

\* broadcasting of two rank-2 tensors: a dimension of size 1 is stretched
BMax(x, y) == IF x >= y THEN x ELSE y
BAt(A, i, j) == A[IF Rows(A) = 1 THEN 1 ELSE i][IF Cols(A) = 1 THEN 1 ELSE j]

\* A + B, A - B, A * B elementwise with broadcasting
BAdd(A, B) ==
  Array([i \in 1..BMax(Rows(A), Rows(B)) |->
     Array([j \in 1..BMax(Cols(A), Cols(B)) |-> RAdd(BAt(A, i, j), BAt(B, i, j))],
           BMax(Cols(A), Cols(B)))], BMax(Rows(A), Rows(B)))
BSub(A, B) ==
  Array([i \in 1..BMax(Rows(A), Rows(B)) |->
     Array([j \in 1..BMax(Cols(A), Cols(B)) |-> RSub(BAt(A, i, j), BAt(B, i, j))],
           BMax(Cols(A), Cols(B)))], BMax(Rows(A), Rows(B)))
BMul(A, B) ==
  Array([i \in 1..BMax(Rows(A), Rows(B)) |->
     Array([j \in 1..BMax(Cols(A), Cols(B)) |-> RMul(BAt(A, i, j), BAt(B, i, j))],
           BMax(Cols(A), Cols(B)))], BMax(Rows(A), Rows(B)))

\* c * A for a scalar c
Scale(c, A) ==
  Array([i \in 1..Rows(A) |->
     Array([j \in 1..Cols(A) |-> RMul(c, A[i][j])], Cols(A))], Rows(A))

Zeros(n, m) == Array([i \in 1..n |-> Array([j \in 1..m |-> R(0)], m)], n)
Ones(n, m) == Array([i \in 1..n |-> Array([j \in 1..m |-> R(1)], m)], n)
OnesVec(n) == Array([i \in 1..n |-> R(1)], n)

(***************************************************************************)
(* np.random: one seed fixes the stream; pos is the position of the draw   *)
(* in the stream.  A finite sample of the values a draw can take.          *)
(***************************************************************************)
Seeds == 1..NumSeeds

\* np.random.normal(size=(rows, cols)), np.random.randn(rows, cols)
Normal(seed, pos, rows, cols) ==
  [i \in 1..rows |-> [j \in 1..cols |-> R(((seed + pos + (pos \div 3) + 2 * i + j) % 3) - 1)]]

\* np.random.normal(size=(n,))
NormalVec(seed, pos, n) == [j \in 1..n |-> R(((seed + pos + (pos \div 3) + j) % 3) - 1)]

\* np.random.rand(rows, cols)
Rand(seed, pos, rows, cols) ==
  [i \in 1..rows |-> [j \in 1..cols |-> Q((seed + pos + i + j) % 2, 2)]]

\* Python's None where a tensor or a number is expected, and where a
\* reference to a Parameter object is expected
None == <<>>
NoneRef == 0

(***************************************************************************)
(* The state: the CombinedController object graph (its fields, its two     *)
(* sub-controllers, and the heap of DataX Parameter objects the FakeGPR    *)
(* sub-models refer to), the last operation and what it returned, the      *)
(* frame of the last compute_action call, and the frames of the threads    *)
(* that call compute_action concurrently.                                  *)
(***************************************************************************)
VARIABLES ctl, op, ret, call, th
vars == <<ctl, op, ret, call, th>>

(***************************************************************************)
(* FakeGPR.__init__: a sub-model creates its own DataX Parameter only when *)
(* it is given no X; otherwise it keeps the reference it is given.         *)
(* heap is the sequence of DataX Parameter objects, a reference its index. *)
(***************************************************************************)
FakeGPROwnX(heap, data, kernel, X, likelihood_variance) ==
  [heap  |-> Append(heap, data[1]),
   model |-> [X |-> Len(heap) + 1, Y |-> data[2], kernel |-> kernel,
              likelihood |-> [variance |-> likelihood_variance]]]

FakeGPR(heap, data, kernel, X, likelihood_variance) ==
  IF X = NoneRef
  THEN [heap  |-> Append(heap, data[1]),
        model |-> [X |-> Len(heap) + 1, Y |-> data[2], kernel |-> kernel,
                   likelihood |-> [variance |-> likelihood_variance]]]
  ELSE [heap  |-> heap,
        model |-> [X |-> X, Y |-> data[2], kernel |-> kernel,
                   likelihood |-> [variance |-> likelihood_variance]]]

\* data[1][:, i:i+1]
Column(A, i) == [l \in 1..Rows(A) |-> <<A[l][i]>>]

\* gpflow.kernels.SquaredExponential(lengthscales=tf.ones([d])), variance 1
SquaredExponential(d) == [lengthscales |-> OnesVec(d), variance |-> R(1)]

\* the default likelihood_variance of FakeGPR.__init__
DefaultLikelihoodVariance == Q(1, 10000)

RECURSIVE create_models(_, _)
\* RbfController.create_models, the first i sub-models
create_models(data, i) ==
  IF i = 0
  THEN [heap |-> <<>>, models |-> <<>>]
  ELSE LET prev == create_models(data, i - 1)
           g == FakeGPR(prev.heap, <<data[1], Column(data[2], i)>>,
                        SquaredExponential(Cols(data[1])),
                        IF i = 1 THEN NoneRef ELSE prev.models[i - 1].X,
                        DefaultLikelihoodVariance)
       IN  [heap |-> g.heap, models |-> Append(prev.models, g.model)]

\* MGPR.__init__(data): the dimensions of the data, then create_models
MGPRInit(data) ==
  LET c == create_models(data, Cols(data[2]))
  IN  [heap |-> c.heap,
       gp |-> [models |-> c.models,
               num_outputs |-> Cols(data[2]),
               num_dims |-> Cols(data[1]),
               num_datapoints |-> Rows(data[1])]]

\* RbfController.__init__
RbfControllerInit(sd, cd, nbf, max_action, seed) ==
  LET g == MGPRInit(<<Normal(seed, 0, nbf, sd),
                      Scale(Q(1, 10), Normal(seed, 1, nbf, cd))>>)
  IN  [heap |-> g.heap,
       rbf |-> [models |-> [i \in 1..Len(g.gp.models) |->
                              [g.gp.models[i] EXCEPT !.kernel.variance = R(1)]],
                num_outputs |-> g.gp.num_outputs,
                num_dims |-> g.gp.num_dims,
                num_datapoints |-> g.gp.num_datapoints,
                max_action |-> max_action]]

\* LinearController.__init__
LinearControllerInit(sd, cd, max_action, W, seed) ==
  [W |-> IF W = None THEN Rand(seed, 2, cd, sd) ELSE W,
   b |-> Zeros(1, cd),
   max_action |-> max_action]

\* CombinedController.__init__
CombinedControllerInit(sd, cd, nbf, controller_location, max_action, W, seed) ==
  LET rc == RbfControllerInit(sd, cd, nbf, max_action, seed)
  IN  [rbf_controller |-> rc.rbf,
       heap |-> rc.heap,
       linear_controller |-> LinearControllerInit(sd, cd, max_action, W, seed),
       a |-> IF controller_location = None THEN Zeros(1, sd) ELSE controller_location,
       S |-> OnesVec(sd),
       r |-> <<<<R(1)>>>>,
       max_action |-> max_action]

(***************************************************************************)
(* squash_sin(m, s, max_action): m is 1 x k, s is k x k.                   *)
(***************************************************************************)
\* max_action as a 1 x k row: tf.ones((1, k)) by default
MaxActionRow(max_action, k) ==
  IF max_action = None THEN Ones(1, k) ELSE Scale(max_action, Ones(1, k))

\* tf.exp(-tf.linalg.diag_part(s) / 2)
ExpGrowHalfDiag(s) ==
  Array([i \in 1..Rows(s) |-> Exp(RDiv(s[i][i], R(2)))], Rows(s))

ExpHalfDiag(s) ==
  Array([i \in 1..Rows(s) |-> Exp(RDiv(RNeg(s[i][i]), R(2)))], Rows(s))

\* lq[i][j] = -(s_ii + s_jj) / 2
LogQ(s, i, j) == RDiv(RNeg(RAdd(s[i][i], s[j][j])), R(2))

\* entry (i, j) of (exp(lq + s) - q) * cos(m^T - m) - (exp(lq - s) - q) * cos(m^T + m)
SquashCovEntry(m, s, lq, i, j) ==
  RSub(RMul(RSub(Exp(RAdd(lq, s[i][j])), Exp(lq)), Cos(RSub(m[1][i], m[1][j]))),
       RMul(RSub(Exp(RSub(lq, s[i][j])), Exp(lq)), Cos(RAdd(m[1][i], m[1][j]))))

SquashOutputs(m, s, ma, e, k) ==
  [M |-> <<Array([i \in 1..k |-> RMul(RMul(ma[1][i], e[i]), Sin(m[1][i]))], k)>>,
   S |-> Scale(Q(1, 2),
               BMul(BMul(ma, Transpose(ma)),
                    Array([i \in 1..k |-> Array([j \in 1..k |->
                       SquashCovEntry(m, s, LogQ(s, i, j), i, j)], k)], k))),
   C |-> BMul(ma, Diag(Array([i \in 1..k |-> RMul(e[i], Cos(m[1][i]))], k)))]

squash_sin(m, s, max_action) ==
  SquashOutputs(m, s, MaxActionRow(max_action, Cols(m)), ExpHalfDiag(s), Cols(m))

\* the end of every compute_action:
\*   if squash: M, S, V2 = squash_sin(M, S, max_action); V = V @ V2
\*   return M, S, V
Squashed(out, sq) == [M |-> sq.M, S |-> sq.S, V |-> MatMul(out.V, sq.C)]

Return(out, max_action, squash) ==
  IF squash THEN Squashed(out, squash_sin(out.M, out.S, max_action)) ELSE out

(***************************************************************************)
(* LinearController.compute_action                                         *)
(***************************************************************************)
LinearComputeAction(lin, m, s, squash) ==
  Return([M |-> BAdd(MatMul(m, Transpose(lin.W)), lin.b),
          S |-> MatMul(MatMul(lin.W, s), Transpose(lin.W)),
          V |-> Transpose(lin.W)],
         lin.max_action, squash)

(***************************************************************************)
(* The regression collaborator (MGPR).  calculate_factorizations and       *)
(* predict_given_factorizations are opaque: a call returns one of a finite *)
(* sample of Gaussians (mean 1 x k, covariance k x k, cross-covariance     *)
(* d x k), chosen by draw.  variance is the accessor of the per-output     *)
(* observation-noise floor.                                                *)
(***************************************************************************)
variance(rbf) ==
  Array([i \in 1..Len(rbf.models) |-> rbf.models[i].likelihood.variance],
        Len(rbf.models))

\* the 1e-6 of RbfController.compute_action
Jitter == Q(1, 1000000)

PredictedCovariance(v, draw, k) ==
  Array([i \in 1..k |-> Array([j \in 1..k |->
     IF i = j THEN RAdd(Q(draw, 2), RSub(v[i], Jitter)) ELSE Q(draw - 1, 2)], k)], k)

predict_given_factorizations(rbf, draw) ==
  [M |-> Normal(draw, 0, 1, rbf.num_outputs),
   S |-> PredictedCovariance(variance(rbf), draw, rbf.num_outputs),
   V |-> Normal(draw, 1, rbf.num_dims, rbf.num_outputs)]

(***************************************************************************)
(* RbfController.compute_action: gp is what predict_given_factorizations   *)
(* returned for (m, s, 0.0 * iK, beta).                                    *)
(***************************************************************************)
\* self.variance - 1e-6
FloorLessJitter(v) == Array([i \in 1..Len(v) |-> RSub(v[i], Jitter)], Len(v))

\* S - tf.linalg.diag(self.variance)
SubtractWholeFloor(rbf, S) == BSub(S, Diag(variance(rbf)))

\* S - tf.linalg.diag(self.variance - 1e-6)
SubtractFloor(rbf, S) == BSub(S, Diag(FloorLessJitter(variance(rbf))))

RbfComputeAction(rbf, gp, squash) ==
  Return([M |-> gp.M, S |-> SubtractFloor(rbf, gp.S), V |-> gp.V],
         rbf.max_action, squash)

(***************************************************************************)
(* CombinedController.compute_ratio and compute_action                     *)
(***************************************************************************)
\* d = (x - a) @ tf.linalg.diag(S) @ tf.transpose(x - a), a 1 x 1 tensor
Distance(a, S, x) == MatMul(MatMul(BSub(x, a), Diag(S)), Transpose(BSub(x, a)))

\* tf.pow(d + 1, 2)
PowPlusOne(d) == RMul(RAdd(d, R(1)), RAdd(d, R(1)))

\* ratio = tf.pow(d + 1, 2)
RatioNotInverted(a, S, x) == <<<<PowPlusOne(Distance(a, S, x)[1][1])>>>>

\* compute_ratio(x) for the trust-region center a and scale S: a 1 x 1 tensor
compute_ratio(a, S, x) == <<<<RDiv(R(1), PowPlusOne(Distance(a, S, x)[1][1]))>>>>

\* line 215: M = self.r * M1 + (1 - self.r) * M2
MixtureMean(r, r1, o1, o2) == BAdd(BMul(r, o1.M), BMul(r1, o2.M))

\* line 216.  Python evaluates self.r * (M1 - M) @ tf.transpose(M1 - M) from
\* the left, (self.r * (M1 - M)) @ tf.transpose(M1 - M): a 1 x 1 tensor,
\* which the sum broadcasts over the k x k covariance.
MixtureCovariance(r, r1, o1, o2, M) ==
  BAdd(BAdd(BAdd(BMul(r, o1.S), BMul(r1, o2.S)),
            MatMul(BMul(r, BSub(o1.M, M)), Transpose(BSub(o1.M, M)))),
       MatMul(BMul(r1, BSub(o2.M, M)), Transpose(BSub(o2.M, M))))

\* line 217: V = self.r * V1 + (1 - self.r) * V2
MixtureCross(r, r1, o1, o2) == BAdd(BMul(r, o1.V), BMul(r1, o2.V))

MixtureOutputs(r, r1, o1, o2, M) ==
  [M |-> M, S |-> MixtureCovariance(r, r1, o1, o2, M), V |-> MixtureCross(r, r1, o1, o2)]

\* lines 215-221 for the ratio r and the sub-controllers' outputs o1, o2
Mixture(r, o1, o2, max_action, squash) ==
  Return(MixtureOutputs(r, BSub(<<<<R(1)>>>>, r), o1, o2,
                        MixtureMean(r, BSub(<<<<R(1)>>>>, r), o1, o2)),
         max_action, squash)

\* the new self.r, the sub-controllers' outputs and the returned (M, S, V)
CallRecord(r, o1, o2, max_action, squash) ==
  [r |-> r, o1 |-> o1, o2 |-> o2, out |-> Mixture(r, o1, o2, max_action, squash)]

\* compute_action without line 212: the ratio is the one self.r holds
CombinedComputeActionStale(self, m, s, squash, gp) ==
  CallRecord(self.r,
             LinearComputeAction(self.linear_controller, m, s, FALSE),
             RbfComputeAction(self.rbf_controller, gp, FALSE),
             self.max_action, squash)

\* CombinedController.compute_action
CombinedComputeAction(self, m, s, squash, gp) ==
  CallRecord(compute_ratio(self.a, self.S, m),
             LinearComputeAction(self.linear_controller, m, s, FALSE),
             RbfComputeAction(self.rbf_controller, gp, FALSE),
             self.max_action, squash)

(***************************************************************************)
(* randomize                                                               *)
(***************************************************************************)
\* LinearController.randomize
LinearRandomize(lin, seed, pos) ==
  [lin EXCEPT !.W = Normal(seed, pos, Rows(lin.W), Cols(lin.W)),
              !.b = Normal(seed, pos + 1, Rows(lin.b), Cols(lin.b))]

\* one pass of the loop body of RbfController.randomize, for sub-model i.
\* st = [rbf, heap, status]; self.max_action / 10 raises TypeError when
\* max_action is None, after m.X.assign has already taken effect.
RandomizeModel(st, i, seed) ==
  LET m == st.rbf.models[i]
      pos == 3 * (i - 1)
      X == st.heap[m.X]
      heap1 == [st.heap EXCEPT ![m.X] = Normal(seed, pos, Rows(X), Cols(X))]
  IN  IF st.rbf.max_action = None
      THEN [rbf |-> st.rbf, heap |-> heap1, status |-> "TypeError"]
      ELSE LET Y == Scale(RDiv(st.rbf.max_action, R(10)),
                          Normal(seed, pos + 1, Rows(m.Y), Cols(m.Y)))
               nv == NormalVec(seed, pos + 2, Len(m.kernel.lengthscales))
               ls == [j \in 1..Len(nv) |-> RAdd(R(1), RMul(Q(1, 10), nv[j]))]
           IN  [rbf |-> [st.rbf EXCEPT !.models[i].Y = Y,
                                       !.models[i].kernel.lengthscales = ls],
                heap |-> heap1,
                status |-> "ok"]

RECURSIVE RandomizeLoop(_, _, _)
\* for m in self.models, from the i-th on; an exception ends the loop
RandomizeLoop(st, i, seed) ==
  IF i > Len(st.rbf.models) \/ st.status # "ok"
  THEN st
  ELSE RandomizeLoop(RandomizeModel(st, i, seed), i + 1, seed)

\* RbfController.randomize
RbfRandomize(rbf, heap, seed) ==
  RandomizeLoop([rbf |-> rbf, heap |-> heap, status |-> "ok"], 1, seed)

\* CombinedController.randomize with the gate redrawn as well
CombinedRandomizeGate(self, seed) ==
  LET st == RbfRandomize(self.rbf_controller, self.heap, seed)
      nv == NormalVec(seed, 0, Len(self.S))
  IN  [self |-> [self EXCEPT !.rbf_controller = st.rbf, !.heap = st.heap,
                             !.S = [j \in 1..Len(nv) |-> RAdd(R(2), nv[j])]],
       status |-> st.status]

\* CombinedController.randomize
CombinedRandomize(self, seed) ==
  LET st == RbfRandomize(self.rbf_controller, self.heap, seed)
  IN  [self |-> [self EXCEPT !.rbf_controller = st.rbf, !.heap = st.heap],
       status |-> st.status]

(***************************************************************************)
(* The optimizer: one step assigns every trainable Parameter object in     *)
(* place (W, b, S, each DataX object of the heap, each sub-model's DataY   *)
(* and lengthscales); a, the kernel variances and the likelihood variances *)
(* are not trainable.  S and the lengthscales are constrained positive.    *)
(***************************************************************************)
Positive(nv) == [j \in 1..Len(nv) |-> RAdd(R(1), RMul(Q(1, 2), nv[j]))]

OptimizerAssign(self, seed) ==
  LET lin == self.linear_controller
      rbf == self.rbf_controller
  IN  [self EXCEPT
         !.linear_controller.W = Normal(seed, 0, Rows(lin.W), Cols(lin.W)),
         !.linear_controller.b = Normal(seed, 1, Rows(lin.b), Cols(lin.b)),
         !.S = Positive(NormalVec(seed, 2, Len(self.S))),
         !.heap = [x \in 1..Len(self.heap) |->
                     Normal(seed, 2 + x, Rows(self.heap[x]), Cols(self.heap[x]))],
         !.rbf_controller.models = [i \in 1..Len(rbf.models) |->
            [rbf.models[i] EXCEPT
               !.Y = Scale(Q(1, 10), Normal(seed, i, Rows(rbf.models[i].Y), 1)),
               !.kernel.lengthscales =
                  Positive(NormalVec(seed, i, Len(rbf.models[i].kernel.lengthscales)))]]]

(***************************************************************************)
(* RbfController.linearize(loc).  loc is a rank-1 array of num_dims        *)
(* entries, the shape for which (loc - center).reshape(state_dim, 1) is    *)
(* defined.  acc = [bias, weight] are bias_term_collector and              *)
(* weight_term_collector; weight is a state_dim x 1 column.                *)
(***************************************************************************)
\* np.diag(1 / var) @ temp, a column
Precision(var, temp) ==
  Array([j \in 1..Len(temp) |-> <<RMul(RDiv(R(1), var[j]), temp[j])>>], Len(temp))

\* what one center adds to the collectors: [bias, weight]
CenterTerms(m, center, loc) ==
  LET d == Len(loc)
      var == m.kernel.lengthscales
      temp == Array([j \in 1..d |-> RSub(loc[j], center[j])], d)
      pt == Precision(var, temp)
      quad == RSum(Array([j \in 1..d |-> RMul(temp[j], pt[j][1])], d), d)
      exp_term == RMul(m.kernel.variance, Exp(RMul(Q(-1, 2), quad)))
      differential_term == Array([j \in 1..d |-> <<RMul(exp_term, pt[j][1])>>], d)
      dot == RSum(Array([j \in 1..d |-> RMul(differential_term[j][1], center[j])], d), d)
  IN  [bias |-> RSub(exp_term, dot), weight |-> differential_term]

\* what the loop over the centers of sub-model m adds to the collectors
ModelTerms(m, centers, loc) ==
  LET n == Rows(centers)
      ct == Array([c \in 1..n |-> CenterTerms(m, centers[c], loc)], n)
  IN  [bias |-> RSum(Array([c \in 1..n |-> ct[c].bias], n), n),
       weight |-> Array([j \in 1..Len(loc) |->
                     <<RSum(Array([c \in 1..n |-> ct[c].weight[j][1]], n), n)>>],
                     Len(loc))]

\* (weight_term_collector / total_rbfs, bias_term_collector / total_rbfs)
Averaged(acc, total_rbfs) ==
  <<Scale(RDiv(R(1), R(total_rbfs)), acc.weight), RDiv(acc.bias, R(total_rbfs))>>

\* bias_term_collector and weight_term_collector when the pair of sub-model
\* i is appended: they start at 0 before the loop over the sub-models and
\* are not reset between sub-models, so they hold the terms of sub-models 1..i
Collectors(mt, i) ==
  [bias |-> RSum(Array([l \in 1..i |-> mt[l].bias], i), i),
   weight |-> Array([j \in 1..Len(mt[1].weight) |->
                 <<RSum(Array([l \in 1..i |-> mt[l].weight[j][1]], i), i)>>],
                 Len(mt[1].weight))]

linearize(rbf, heap, loc) ==
  LET k == Len(rbf.models)
      mt == Array([i \in 1..k |->
               ModelTerms(rbf.models[i], heap[rbf.models[i].X], loc)], k)
  IN  Array([i \in 1..k |-> Averaged(Collectors(mt, i), rbf.num_datapoints)], k)

(***************************************************************************)
(* The controller's life: construction, then randomize() and optimizer     *)
(* updates in any order.                                                   *)
(***************************************************************************)
MaxActions == {None, R(1), R(2)}
Locations == {None, Ones(1, state_dim)}
Weights == {None, Ones(control_dim, state_dim)}

\* the points at which the controller is linearized
Points == {[j \in 1..state_dim |-> R(0)], [j \in 1..state_dim |-> R(j % 2)]}

NoCall == [m |-> None]
NoThreads == <<>>

\* the state after CombinedController(state_dim, control_dim,
\* num_basis_functions, controller_location, max_action, W)
Constructed(ma, loc, W, seed) ==
  /\ ctl = CombinedControllerInit(state_dim, control_dim, num_basis_functions,
                                  loc, ma, W, seed)
  /\ op = [name |-> "__init__", status |-> "ok"]
  /\ ret = None
  /\ call = NoCall
  /\ th = NoThreads

Init ==
  \E ma \in MaxActions, loc \in Locations, W \in Weights, seed \in Seeds :
    Constructed(ma, loc, W, seed)

Randomize(seed) ==
  LET res == CombinedRandomize(ctl, seed)
  IN  /\ ctl' = res.self
      /\ op' = [name |-> "randomize", status |-> res.status]
      /\ ret' = None
      /\ UNCHANGED <<call, th>>

OptimizerStep(seed) ==
  /\ ctl' = OptimizerAssign(ctl, seed)
  /\ op' = [name |-> "optimizer", status |-> "ok"]
  /\ ret' = None
  /\ UNCHANGED <<call, th>>

Linearize(loc) ==
  /\ op' = [name |-> "linearize", status |-> "ok", loc |-> loc]
  /\ ret' = linearize(ctl.rbf_controller, ctl.heap, loc)
  /\ UNCHANGED <<ctl, call, th>>

Next ==
  \/ \E seed \in Seeds : Randomize(seed)
  \/ \E seed \in Seeds : OptimizerStep(seed)
  \/ \E loc \in Points : Linearize(loc)

Spec == Init /\ [][Next]_vars
(***************************************************************************)
(* The control loop: compute_action calls on the combined controller, one  *)
(* after the other, with optimizer updates in between.                     *)
(***************************************************************************)
\* mean states (1 x state_dim) and state covariances the callers pass
MeanStates ==
  {Zeros(1, state_dim), Ones(1, state_dim),
   <<[j \in 1..state_dim |-> IF j = 1 THEN R(1) ELSE R(0)]>>}
Covariances == {Zeros(state_dim, state_dim), Scale(Q(1, 2), Diag(OnesVec(state_dim)))}

\* which Gaussian the regression collaborator returns for a call
Draws == {1, 2}

\* the controller built with every default, and one built with a location
\* and a max_action
InitAct ==
  \/ Constructed(None, None, None, 1)
  \/ Constructed(R(2), Ones(1, state_dim), None, 1)

ComputeAction(m, s, squash, draw) ==
  \E gp \in {predict_given_factorizations(ctl.rbf_controller, draw)} :
    \E res \in {CombinedComputeAction(ctl, m, s, squash, gp)} :
      /\ ctl' = [ctl EXCEPT !.r = res.r]
      /\ op' = [name |-> "compute_action", status |-> "ok"]
      /\ call' = [m |-> m, s |-> s, squash |-> squash, gp |-> gp,
                  o1 |-> res.o1, o2 |-> res.o2]
      /\ ret' = res.out
      /\ th' = th

NextAct ==
  \/ \E m \in MeanStates, s \in Covariances, squash \in BOOLEAN, draw \in Draws :
       ComputeAction(m, s, squash, draw)
  \/ \E seed \in Seeds : OptimizerStep(seed)

SpecAct == InitAct /\ [][NextAct]_vars

(***************************************************************************)
(* squash_sin on its own: the inputs are drawn at the start, one step      *)
(* applies the function.                                                   *)
(***************************************************************************)
\* the values of a mean's entries, and the means 1 x control_dim over them
MeanValues == {Q(-5, 2), Q(-1, 2), R(0), Q(3, 2)}
SquashMeans == {<<Array(f, control_dim)>> : f \in [1..control_dim -> MeanValues]}

\* covariances control_dim x control_dim: zero, I/2, correlated, and growing
SquashCovariances ==
  {Zeros(control_dim, control_dim),
   Scale(Q(1, 2), Diag(OnesVec(control_dim))),
   Array([i \in 1..control_dim |-> Array([j \in 1..control_dim |->
      IF i = j THEN R(1) ELSE Q(1, 2)], control_dim)], control_dim),
   Diag(Array([i \in 1..control_dim |-> R(i)], control_dim))}

InitSquash ==
  /\ \E m \in SquashMeans, s \in SquashCovariances, ma \in MaxActions :
       call = [m |-> m, s |-> s, max_action |-> ma]
  /\ ctl = None
  /\ op = [name |-> "input", status |-> "ok"]
  /\ ret = None
  /\ th = NoThreads

SquashSin ==
  /\ op.name = "input"
  /\ op' = [name |-> "squash_sin", status |-> "ok"]
  /\ ret' = squash_sin(call.m, call.s, call.max_action)
  /\ UNCHANGED <<ctl, call, th>>

NextSquash == SquashSin

SpecSquash == InitSquash /\ [][NextSquash]_vars

(***************************************************************************)
(* Two threads calling compute_action on one CombinedController, with no   *)
(* randomize() and no optimizer update.  A step is one statement of        *)
(* CombinedController.compute_action; th[t] is the frame of thread t: its  *)
(* arguments, its locals M1.. (o1), M2.. (o2), M, S, V and what it         *)
(* returned.  self.r is a field of the controller, not of the frame.       *)
(***************************************************************************)
Threads == {1, 2}

Idle == [pc |-> "idle"]

InitConc ==
  /\ ctl = CombinedControllerInit(state_dim, control_dim, num_basis_functions,
                                  None, R(2), None, 1)
  /\ op = [name |-> "__init__", status |-> "ok"]
  /\ ret = None
  /\ call = NoCall
  /\ th = [t \in Threads |-> Idle]

\* the call: the arguments, and gp, what predict_given_factorizations will
\* return to it
Enter(t, m, s, squash, draw) ==
  /\ th[t].pc = "idle"
  /\ th' = [th EXCEPT ![t] =
              [pc |-> "212", m |-> m, s |-> s, squash |-> squash,
               gp |-> predict_given_factorizations(ctl.rbf_controller, draw)]]
  /\ UNCHANGED <<ctl, op, ret, call>>

\* line 212: self.r = self.compute_ratio(m)
StoreRatio(t) ==
  /\ th[t].pc = "212"
  /\ ctl' = [ctl EXCEPT !.r = compute_ratio(ctl.a, ctl.S, th[t].m)]
  /\ th' = [th EXCEPT ![t].pc = "213"]
  /\ UNCHANGED <<op, ret, call>>

\* lines 213-214: the two sub-controllers' outputs
SubControllers(t) ==
  /\ th[t].pc = "213"
  /\ th' = [th EXCEPT ![t] =
       [pc |-> "215", m |-> th[t].m, s |-> th[t].s, squash |-> th[t].squash,
        gp |-> th[t].gp,
        o1 |-> LinearComputeAction(ctl.linear_controller, th[t].m, th[t].s, FALSE),
        o2 |-> RbfComputeAction(ctl.rbf_controller, th[t].gp, FALSE)]]
  /\ UNCHANGED <<ctl, op, ret, call>>

\* line 215: M = self.r * M1 + (1 - self.r) * M2
MixMean(t) ==
  /\ th[t].pc = "215"
  /\ th' = [th EXCEPT ![t] =
       [pc |-> "216", m |-> th[t].m, s |-> th[t].s, squash |-> th[t].squash,
        gp |-> th[t].gp, o1 |-> th[t].o1, o2 |-> th[t].o2,
        M |-> MixtureMean(ctl.r, BSub(<<<<R(1)>>>>, ctl.r), th[t].o1, th[t].o2)]]
  /\ UNCHANGED <<ctl, op, ret, call>>

\* line 216: S = self.r * S1 + (1 - self.r) * S2 + ...
MixCovariance(t) ==
  /\ th[t].pc = "216"
  /\ th' = [th EXCEPT ![t] =
       [pc |-> "217", m |-> th[t].m, s |-> th[t].s, squash |-> th[t].squash,
        gp |-> th[t].gp, o1 |-> th[t].o1, o2 |-> th[t].o2, M |-> th[t].M,
        S |-> MixtureCovariance(ctl.r, BSub(<<<<R(1)>>>>, ctl.r),
                                th[t].o1, th[t].o2, th[t].M)]]
  /\ UNCHANGED <<ctl, op, ret, call>>

\* line 217: V = self.r * V1 + (1 - self.r) * V2
MixCross(t) ==
  /\ th[t].pc = "217"
  /\ th' = [th EXCEPT ![t] =
       [pc |-> "218", m |-> th[t].m, s |-> th[t].s, squash |-> th[t].squash,
        gp |-> th[t].gp, o1 |-> th[t].o1, o2 |-> th[t].o2, M |-> th[t].M,
        S |-> th[t].S,
        V |-> MixtureCross(ctl.r, BSub(<<<<R(1)>>>>, ctl.r), th[t].o1, th[t].o2)]]
  /\ UNCHANGED <<ctl, op, ret, call>>

\* lines 218-221: squash if asked, and return
Leave(t) ==
  /\ th[t].pc = "218"
  /\ th' = [th EXCEPT ![t] =
       [pc |-> "done", m |-> th[t].m, s |-> th[t].s, squash |-> th[t].squash,
        gp |-> th[t].gp,
        ret |-> Return([M |-> th[t].M, S |-> th[t].S, V |-> th[t].V],
                       ctl.max_action, th[t].squash)]]
  /\ UNCHANGED <<ctl, op, ret, call>>

NextConc ==
  \/ \E t \in Threads, m \in MeanStates, squash \in BOOLEAN :
       Enter(t, m, Scale(Q(1, 2), Diag(OnesVec(state_dim))), squash, 1)
  \/ \E t \in Threads : StoreRatio(t)
  \/ \E t \in Threads : SubControllers(t)
  \/ \E t \in Threads : MixMean(t)
  \/ \E t \in Threads : MixCovariance(t)
  \/ \E t \in Threads : MixCross(t)
  \/ \E t \in Threads : Leave(t)

SpecConc == InitConc /\ [][NextConc]_vars

(***************************************************************************)
(* Properties of the controller's life (under Spec).                       *)
(***************************************************************************)
Models == ctl.rbf_controller.models

\* C1: a randomize() call leaves the linear sub-controller's W and b, the
\* trust-region center a and the trust-region scale S exactly as they were.
C1_RandomizeKeepsGateAndLinear ==
  [][op'.name = "randomize" =>
       /\ ctl'.linear_controller.W = ctl.linear_controller.W
       /\ ctl'.linear_controller.b = ctl.linear_controller.b
       /\ ctl'.a = ctl.a
       /\ ctl'.S = ctl.S]_vars

\* a randomize() has completed on a controller whose W, b and S are no
\* longer the values construction gave them
C1_Witness ==
  /\ op.name = "randomize"
  /\ op.status = "ok"
  /\ ctl.S # OnesVec(state_dim)
  /\ ctl.linear_controller.b # Zeros(1, control_dim)

\* C4: every sub-model refers to the DataX object of the first sub-model,
\* so the pseudo-inputs are equal, and every sub-model has the same number of
\* pseudo-points; each sub-model has a pseudo-target array of its own.
C4_SharedPseudoInputs ==
  \A i \in 1..Len(Models) :
    /\ Models[i].X = Models[1].X
    /\ ctl.heap[Models[i].X] = ctl.heap[Models[1].X]
    /\ Rows(ctl.heap[Models[i].X]) = ctl.rbf_controller.num_datapoints
    /\ Rows(Models[i].Y) = ctl.rbf_controller.num_datapoints
    /\ Cols(Models[i].Y) = 1

\* after a completed randomize() the sub-models hold different targets
\* over the one pseudo-input array
C4_Witness ==
  /\ op.name = "randomize"
  /\ op.status = "ok"
  /\ Len(Models) >= 2
  /\ Models[1].Y # Models[2].Y
  /\ Models[1].kernel.lengthscales # Models[2].kernel.lengthscales

\* the pair linearize would return for sub-model i from the pseudo-points of
\* sub-model i alone
OwnPair(i) ==
  LET m == Models[i]
  IN  Averaged(ModelTerms(m, ctl.heap[m.X], op.loc), ctl.rbf_controller.num_datapoints)

\* C7: linearize(loc) returns one (weight, bias) pair per output dimension,
\* and the pair of output dimension i is accumulated over the pseudo-points of
\* sub-model i only.
C7_PairPerModelOnly ==
  op.name = "linearize" =>
    /\ Len(ret) = ctl.rbf_controller.num_outputs
    /\ \A i \in 1..Len(ret) : ret[i] = OwnPair(i)

\* C10: a randomize() call either completes, or fails leaving every
\* parameter unchanged.
C10_RandomizeAllOrNothing ==
  [][op'.name = "randomize" => (op'.status = "ok" \/ ctl' = ctl)]_vars

(***************************************************************************)
(* Properties of compute_action (under SpecAct).                           *)
(***************************************************************************)
\* v^T v for a 1 x k row v: the k x k outer product
Outer(v) == MatMul(Transpose(v), v)

\* the covariance the mixture formula gives for the ratio r, the component
\* outputs o1 and o2 and the combined mean M
OuterProductCovariance(r, r1, o1, o2, M) ==
  BAdd(BAdd(BAdd(BMul(r, o1.S), BMul(r1, o2.S)),
            BMul(r, Outer(BSub(o1.M, M)))),
       BMul(r1, Outer(BSub(o2.M, M))))

\* C3: with squash=False compute_action returns the k x k covariance
\* r*S1 + (1-r)*S2 + r*(M1-M)^T(M1-M) + (1-r)*(M2-M)^T(M2-M), the corrections
\* being k x k outer products of the mean deviations.
C3_OuterProductCorrection ==
  (op.name = "compute_action" /\ ~call.squash) =>
    ret.S = OuterProductCovariance(ctl.r, BSub(<<<<R(1)>>>>, ctl.r),
                                   call.o1, call.o2, ret.M)

\* the controller as an earlier call could have left it: r = v
LeftWith(v) == [ctl EXCEPT !.r = <<<<v>>>>]

\* C5: the ratio a compute_action call uses is compute_ratio(m) for the
\* current a and S, and what it returns is the same whatever r earlier calls
\* (or construction) left behind.
C5_RatioRecomputed ==
  op.name = "compute_action" =>
    /\ ctl.r = compute_ratio(ctl.a, ctl.S, call.m)
    /\ \A v \in {R(1), Q(1, 2)} :
         ret = CombinedComputeAction(LeftWith(v), call.m, call.s,
                                     call.squash, call.gp).out

\* a call away from the trust-region center: its ratio is not the r = 1
\* that construction left
C5_Witness ==
  /\ op.name = "compute_action"
  /\ ctl.r # <<<<R(1)>>>>
  /\ ret.M # call.o1.M

\* the weighted squared distance and the ratio at x, as numbers
Dist(x) == Distance(ctl.a, ctl.S, x)[1][1]
Ratio(x) == compute_ratio(ctl.a, ctl.S, x)[1][1]

\* C6: for the current center a and positive scale S, compute_ratio(x) lies
\* in (0, 1], is exactly 1 at x = a, and is strictly smaller for a strictly
\* larger weighted squared distance.
C6_RatioGate ==
  /\ Ratio(ctl.a) = R(1)
  /\ \A x \in MeanStates :
       /\ RLt(R(0), Ratio(x))
       /\ RLe(Ratio(x), R(1))
       /\ \A y \in MeanStates : RLt(Dist(x), Dist(y)) => RLt(Ratio(y), Ratio(x))

\* after an optimizer update of S, two states at different positive
\* distances from the center
C6_Witness ==
  /\ ctl.S # OnesVec(state_dim)
  /\ \E x, y \in MeanStates : RLt(R(0), Dist(x)) /\ RLt(Dist(x), Dist(y))

\* the noise floor of each sub-model's pseudo-observations
Floor == variance(ctl.rbf_controller)

Bound == IF call.max_action = None THEN R(1) ELSE call.max_action

\* C8: the mean squash_sin returns lies elementwise in
\* [-max_action, max_action].
C8_SquashedMeanBounded ==
  op.name = "squash_sin" =>
    \A i \in 1..Cols(ret.M) :
      /\ RLe(RNeg(Bound), ret.M[1][i])
      /\ RLe(ret.M[1][i], Bound)

\* a squashed mean of more than half of max_action = 2, from a mean with
\* variance
C8_Witness ==
  /\ op.name = "squash_sin"
  /\ call.max_action = R(2)
  /\ call.s[1][1] # R(0)
  /\ RLt(R(1), RAbs(ret.M[1][1]))

(***************************************************************************)
(* Properties of concurrent compute_action calls (under SpecConc).         *)
(***************************************************************************)
\* what the call of thread t returns when it runs alone
Alone(t) ==
  CombinedComputeAction(ctl, th[t].m, th[t].s, th[t].squash, th[t].gp).out

\* C2: each of two interleaved compute_action calls returns the (M, S, V)
\* the same call returns when run alone.
C2_CallsIsolated ==
  \A t \in Threads : th[t].pc = "done" => th[t].ret = Alone(t)
=============================================================================
